---- MODULE Spec2Model ----
(***************************************************************************)
(* Delivery cost calculator (src/app.py, src/netlify/functions/app.py).    *)
(*                                                                         *)
(* Number representation.  The program computes with floats; every value  *)
(* it can produce is represented here exactly by an integer:              *)
(*   - weights   in units of 0.0001 kg   (3.0 kg = 30000, 0.5 kg = 5000)     *)
(*   - distances in half distance units  (2.5 = 5)                          *)
(*   - raw costs in half cost units      (rate * half-distance)             *)
(* float('inf') is the sentinel Inf, above every finite cost.               *)
(***************************************************************************)
EXTENDS Integers, Sequences, FiniteSets, TLC

\* ------------------------------------------------------------------ bounds
MaxItems == 4      \* valid orders: at most this many items in total
MaxEntries == 3    \* raw mappings: at most this many entries
MaxBlocks == 4     \* pricer inputs: weights around 0, 5, ..., 5*MaxBlocks kg
MaxDistance == 16  \* pricer inputs: distances up to this many half units
MaxCalls == 3      \* a process: at most this many calculations in a row

\* ------------------------------------------------------- data definitions
Inf == 1000000000

PRODUCTS ==
    [ A |-> [center |-> "C1", weight |-> 30000],
      B |-> [center |-> "C1", weight |-> 20000],
      C |-> [center |-> "C1", weight |-> 80000],
      D |-> [center |-> "C2", weight |-> 120000],
      E |-> [center |-> "C2", weight |-> 250000],
      F |-> [center |-> "C2", weight |-> 150000],
      G |-> [center |-> "C3", weight |-> 5000],
      H |-> [center |-> "C3", weight |-> 10000],
      I |-> [center |-> "C3", weight |-> 20000] ]

\* A plausible slip: the C3 - L1 entries are missing from the table.
DISTANCES_without_c3_l1 ==
    (<<"C1", "L1">> :> 6) @@ (<<"L1", "C1">> :> 6) @@
    (<<"C2", "L1">> :> 5) @@ (<<"L1", "C2">> :> 5) @@
    (<<"C1", "C2">> :> 8) @@ (<<"C2", "C1">> :> 8) @@
    (<<"C2", "C3">> :> 6) @@ (<<"C3", "C2">> :> 6)

\* A plausible slip: the hub distances of C1 and C2 are entered the other
\* way round.
DISTANCES_hub_exchanged ==
    (<<"C1", "L1">> :> 5) @@ (<<"L1", "C1">> :> 5) @@
    (<<"C2", "L1">> :> 6) @@ (<<"L1", "C2">> :> 6) @@
    (<<"C3", "L1">> :> 4) @@ (<<"L1", "C3">> :> 4) @@
    (<<"C1", "C2">> :> 8) @@ (<<"C2", "C1">> :> 8) @@
    (<<"C2", "C3">> :> 6) @@ (<<"C3", "C2">> :> 6)

DISTANCES ==
    (<<"C1", "L1">> :> 6) @@ (<<"L1", "C1">> :> 6) @@
    (<<"C2", "L1">> :> 5) @@ (<<"L1", "C2">> :> 5) @@
    (<<"C3", "L1">> :> 4) @@ (<<"L1", "C3">> :> 4) @@
    (<<"C1", "C2">> :> 8) @@ (<<"C2", "C1">> :> 8) @@
    (<<"C2", "C3">> :> 6) @@ (<<"C3", "C2">> :> 6)

CENTERS == {"C1", "C2", "C3"}
LOCATIONS == {"C1", "C2", "C3", "L1"}

\* The module-level tables of src/app.py as the running process holds them:
\* [PRODUCTS |-> ..., DISTANCES |-> ...].  The functions read them at every
\* call.
VARIABLE globals

\* the tables as the module defines them
Loaded == [PRODUCTS |-> PRODUCTS, DISTANCES |-> DISTANCES]

\* epsilon = 1e-9 kg = 1/100000 of a weight unit
epsilon == [num |-> 1, den |-> 100000]

\* ---------------------------------------------------------------- helpers
Min2(a, b) == IF a <= b THEN a ELSE b
Max2(a, b) == IF a >= b THEN a ELSE b

\* min(...) over a loop that starts from float('inf')
MinOf(S) == IF S = {} THEN Inf ELSE CHOOSE x \in S : \A y \in S : x <= y

\* math.ceil(n / d) for integers n >= 0, d > 0
Ceil(n, d) == (n + d - 1) \div d

\* The whole weight units contained in `bound + epsilon`: for an integer
\* weight w, w <= bound + epsilon  iff  w <= PlusEpsilon(bound), and
\* ceil((w - bound - epsilon) / d) = ceil((w - PlusEpsilon(bound)) / d).
PlusEpsilon(bound) == bound + (epsilon.num \div epsilon.den)

get_distance(loc1, loc2) ==
    IF loc1 = loc2 THEN 0
    ELSE IF <<loc1, loc2>> \in DOMAIN globals.DISTANCES
    THEN globals.DISTANCES[<<loc1, loc2>>]
    ELSE IF <<loc2, loc1>> \in DOMAIN globals.DISTANCES
    THEN globals.DISTANCES[<<loc2, loc1>>]
    ELSE Inf

\* A plausible slip: the surcharge blocks counted by floor + 1, which charges
\* one block too many exactly at 10, 15, ... kg.
calculate_segment_cost_floor(weight, distance) ==
    IF distance <= 0 \/ distance = Inf THEN 0
    ELSE LET cost_per_unit ==
                 IF weight <= PlusEpsilon(0) THEN 10
                 ELSE IF weight <= PlusEpsilon(50000) THEN 10
                 ELSE 10 + 8 * (((weight - 50000) \div 50000) + 1)
         IN  cost_per_unit * distance

calculate_segment_cost(weight, distance) ==
    IF distance <= 0 \/ distance = Inf THEN 0
    ELSE LET additional_blocks ==
                 Ceil(Max2(0, weight - PlusEpsilon(50000)), 50000)
             cost_per_unit ==
                 IF weight <= PlusEpsilon(0) THEN 10
                 ELSE IF weight <= PlusEpsilon(50000) THEN 10
                 ELSE 10 + 8 * additional_blocks
         IN  cost_per_unit * distance

_calculate_travel_cost_between_stops(loc_a, loc_b, weight_carried) ==
    LET direct_dist == get_distance(loc_a, loc_b) IN
    IF direct_dist # Inf
    THEN calculate_segment_cost(weight_carried, direct_dist)
    ELSE IF (loc_a = "C1" /\ loc_b = "C3") \/ (loc_a = "C3" /\ loc_b = "C1")
    THEN LET cost_a_c2 ==
                 calculate_segment_cost(weight_carried, get_distance(loc_a, "C2"))
             cost_c2_b ==
                 calculate_segment_cost(weight_carried, get_distance("C2", loc_b))
         IN  IF cost_a_c2 = Inf \/ cost_c2_b = Inf THEN Inf
             ELSE cost_a_c2 + cost_c2_b
    ELSE Inf

\* Python's round(): to the nearest integer, a tie to the even one.
\* The argument is a raw cost in half units.
round(cost2) ==
    LET q == cost2 \div 2 IN
    IF cost2 % 2 = 0 THEN q
    ELSE IF q % 2 = 0 THEN q ELSE q + 1

\* ------------------------------------------------------ 1. parse the order
\* An order mapping is the sequence of its entries in iteration order, with
\* distinct codes.  An entry's quantity is a JSON number: isint tells whether
\* it is an int; for a non-int (1.5) `quantity` holds the integer part only.
Entry(code, isint, quantity) ==
    [code |-> code, isint |-> isint, quantity |-> quantity]

parse_start ==
    [ parse_error |-> "None", error_code |-> "", entries_read |-> 0,
      items_needed |-> {}, needed_centers |-> {},
      weight_from_center |-> [c \in CENTERS |-> 0], total_weight |-> 0 ]

\* The loop of lines 102-113, from entry i on; `acc` holds the locals.
RECURSIVE parse_loop(_, _, _)
parse_loop(order_data, i, acc) ==
    IF i > Len(order_data) THEN acc
    ELSE
      LET product_code == order_data[i].code
          quantity == order_data[i].quantity
          read == [acc EXCEPT !.entries_read = i]
      IN
      IF ~order_data[i].isint \/ quantity < 0
      THEN [read EXCEPT !.parse_error = "Invalid quantity",
                        !.error_code = product_code]
      ELSE IF quantity = 0
      THEN parse_loop(order_data, i + 1, read)
      ELSE IF product_code \notin DOMAIN globals.PRODUCTS
      THEN [read EXCEPT !.parse_error = "Product not found",
                        !.error_code = product_code]
      ELSE
        LET product_info == globals.PRODUCTS[product_code]
            center == product_info.center
            item_total_weight == product_info.weight * quantity
        IN  parse_loop(order_data, i + 1,
              [read EXCEPT
                 !.items_needed = @ \cup {product_code},
                 !.needed_centers = @ \cup {center},
                 !.weight_from_center[center] = @ + item_total_weight,
                 !.total_weight = @ + item_total_weight])

\* A plausible slip: zero quantities are not skipped, so a zero entry is
\* recorded as an item that is needed.
parse_order_keeps_zero(order_data) ==
    LET d == parse_loop(order_data, 1, parse_start) IN
    [d EXCEPT !.items_needed =
        @ \cup {order_data[i].code : i \in 1..d.entries_read}]

parse_order(order_data) == parse_loop(order_data, 1, parse_start)

\* ------------------------------------------------ 2. the two strategies
\* itertools.permutations of a set of centers
permutations(S) ==
    {order \in [1..Cardinality(S) -> S] :
        \A i, j \in 1..Cardinality(S) : order[i] = order[j] => i = j}

\* The pickup legs of one permutation (lines 147-153 and 191-197), from its
\* i-th stop on: stops at the first impossible segment.
RECURSIVE pickup_legs(_, _, _, _, _, _)
pickup_legs(order, i, loc_a, weight, cost, weight_from_center) ==
    IF i > Len(order)
    THEN [valid_path |-> TRUE, cost |-> cost, weight |-> weight, loc_a |-> loc_a]
    ELSE
      LET loc_b == order[i]
          segment_cost == _calculate_travel_cost_between_stops(loc_a, loc_b, weight)
      IN
      IF segment_cost = Inf
      THEN [valid_path |-> FALSE, cost |-> cost, weight |-> weight, loc_a |-> loc_a]
      ELSE pickup_legs(order, i + 1, loc_b,
                       weight + weight_from_center[loc_b],
                       cost + segment_cost, weight_from_center)

\* Strategy 1, one permutation: its total, or Inf when the loop skips it.
total_path_cost(start_center, order, d) ==
    LET legs == pickup_legs(order, 1, start_center,
                            d.weight_from_center[start_center], 0,
                            d.weight_from_center)
        final_leg_cost ==
            _calculate_travel_cost_between_stops(legs.loc_a, "L1", d.total_weight)
    IN  IF ~legs.valid_path THEN Inf
        ELSE IF final_leg_cost = Inf THEN Inf
        ELSE legs.cost + final_leg_cost

cost_simple(start_center, d) ==
    LET pickup_centers_to_visit == d.needed_centers \ {start_center} IN
    IF pickup_centers_to_visit = {}
    THEN IF start_center \in d.needed_centers \/ d.needed_centers = {}
         THEN _calculate_travel_cost_between_stops(start_center, "L1", d.total_weight)
         ELSE Inf
    ELSE MinOf({total_path_cost(start_center, order, d) :
                  order \in permutations(pickup_centers_to_visit)})

\* A plausible slip: the guard forgets that another center must be needed.
partial_applies_alone(start_center, d) ==
    d.weight_from_center[start_center] > 0 /\ Cardinality(d.needed_centers) >= 1

\* Strategy 2 is attempted (line 171)
partial_applies(start_center, d) ==
    d.weight_from_center[start_center] > 0 /\ Cardinality(d.needed_centers) > 1

\* Strategy 2, one permutation of the second trip: L1 -> pickups -> L1.
total_pickup_route_cost(order, weight_remaining, d) ==
    LET legs == pickup_legs(order, 1, "L1", 0, 0, d.weight_from_center)
        final_delivery_cost ==
            _calculate_travel_cost_between_stops(legs.loc_a, "L1", weight_remaining)
    IN  IF ~legs.valid_path THEN Inf
        ELSE IF final_delivery_cost = Inf THEN Inf
        ELSE legs.cost + final_delivery_cost

\* A plausible slip: the first delivery leg is left out of the total.
cost_partial_without_leg1(start_center, d) ==
    IF partial_applies(start_center, d)
    THEN LET w_leg1 == d.weight_from_center[start_center]
             remaining_centers == d.needed_centers \ {start_center}
         IN  MinOf({total_pickup_route_cost(order, d.total_weight - w_leg1, d) :
                      order \in permutations(remaining_centers)})
    ELSE Inf

cost_partial(start_center, d) ==
    IF partial_applies(start_center, d)
    THEN LET w_leg1 == d.weight_from_center[start_center]
             cost_leg1 ==
                 _calculate_travel_cost_between_stops(start_center, "L1", w_leg1)
             remaining_centers == d.needed_centers \ {start_center}
             weight_remaining == d.total_weight - w_leg1
             cost_pickup_and_final_leg ==
                 IF remaining_centers # {}
                 THEN MinOf({total_pickup_route_cost(order, weight_remaining, d) :
                               order \in permutations(remaining_centers)})
                 ELSE 0
         IN  IF cost_leg1 # Inf /\ cost_pickup_and_final_leg # Inf
             THEN cost_leg1 + cost_pickup_and_final_leg
             ELSE Inf
    ELSE Inf

\* The loop over CENTERS (lines 118-224)
min_overall_cost(d) ==
    MinOf({Min2(cost_simple(start_center, d), cost_partial(start_center, d)) :
             start_center \in CENTERS})

\* ------------------------------------------------------------ 3. the core
\* The returned pair (cost, error_message); cost_is_none and error = "None"
\* stand for Python's None.  entries_read, searched and partial_starts record
\* how far the call went: the entries the loop looked at, whether the loop
\* over start centers was entered, and the start centers whose Strategy 2
\* guard held.
Returned(cost, cost_is_none, error, d, searched) ==
    [ cost |-> cost, cost_is_none |-> cost_is_none,
      error |-> error, error_code |-> d.error_code,
      entries_read |-> d.entries_read, searched |-> searched,
      partial_starts |->
          IF searched THEN {c \in CENTERS : partial_applies(c, d)} ELSE {} ]

_calculate_overall_minimum_cost(order_data) ==
    LET d == parse_order(order_data) IN
    IF d.parse_error # "None" THEN Returned(0, TRUE, d.parse_error, d, FALSE)
    ELSE IF d.items_needed = {} THEN Returned(0, FALSE, "None", d, FALSE)
    ELSE IF min_overall_cost(d) = Inf
    THEN Returned(0, TRUE, "No valid delivery path found", d, TRUE)
    ELSE Returned(round(min_overall_cost(d)), FALSE, "None", d, TRUE)

\* ------------------------- 3a. the core, with the order of set iteration
\* list(S) of a set of centers in a process whose sets iterate in set_order
\* (a sequence holding every center once)
list_of(S, set_order) ==
    LET member(c) == c \in S IN SelectSeq(set_order, member)

\* itertools.permutations(pool) as the sequence it yields: in the order of
\* the positions in pool
RECURSIVE itertools_permutations(_), permutations_from(_, _)
itertools_permutations(pool) ==
    IF pool = <<>> THEN << <<>> >> ELSE permutations_from(pool, 1)

\* the permutations whose first element is at position i or later
permutations_from(pool, i) ==
    IF i > Len(pool) THEN <<>>
    ELSE LET others == [k \in 1..(Len(pool) - 1) |->
                           IF k < i THEN pool[k] ELSE pool[k + 1]]
             tails == itertools_permutations(others)
         IN  [k \in 1..Len(tails) |-> <<pool[i]>> \o tails[k]]
             \o permutations_from(pool, i + 1)

\* `min_perm_cost = min(min_perm_cost, total)` over the permutations in turn
\* (lines 139-165 and 183-209); a permutation the loop skips has total Inf
RECURSIVE min_perm_loop(_, _, _)
min_perm_loop(totals, i, min_perm_cost) ==
    IF i > Len(totals) THEN min_perm_cost
    ELSE min_perm_loop(totals, i + 1, Min2(min_perm_cost, totals[i]))

\* A plausible slip: the total is assigned instead of minimised, so the last
\* permutation that was not skipped wins.
min_perm_cost_last_wins(totals) ==
    LET kept == {k \in 1..Len(totals) : totals[k] # Inf} IN
    IF kept = {} THEN Inf
    ELSE totals[CHOOSE k \in kept : \A j \in kept : j <= k]

min_perm_cost(totals) == min_perm_loop(totals, 1, Inf)

cost_simple_listed(start_center, d, set_order) ==
    LET pickup_centers_to_visit ==
            list_of(d.needed_centers \ {start_center}, set_order)
        orders == itertools_permutations(pickup_centers_to_visit)
    IN
    IF pickup_centers_to_visit = <<>>
    THEN IF start_center \in d.needed_centers \/ d.needed_centers = {}
         THEN _calculate_travel_cost_between_stops(start_center, "L1", d.total_weight)
         ELSE Inf
    ELSE min_perm_cost([k \in 1..Len(orders) |->
                          total_path_cost(start_center, orders[k], d)])

cost_partial_listed(start_center, d, set_order) ==
    IF partial_applies(start_center, d)
    THEN LET w_leg1 == d.weight_from_center[start_center]
             cost_leg1 ==
                 _calculate_travel_cost_between_stops(start_center, "L1", w_leg1)
             remaining_centers ==
                 list_of(d.needed_centers \ {start_center}, set_order)
             weight_remaining == d.total_weight - w_leg1
             orders == itertools_permutations(remaining_centers)
             cost_pickup_and_final_leg ==
                 IF remaining_centers # <<>>
                 THEN min_perm_cost([k \in 1..Len(orders) |->
                          total_pickup_route_cost(orders[k], weight_remaining, d)])
                 ELSE 0
         IN  IF cost_leg1 # Inf /\ cost_pickup_and_final_leg # Inf
             THEN cost_leg1 + cost_pickup_and_final_leg
             ELSE Inf
    ELSE Inf

\* the loop over CENTERS, a list: always C1, C2, C3
min_overall_cost_listed(d, set_order) ==
    MinOf({Min2(cost_simple_listed(start_center, d, set_order),
                cost_partial_listed(start_center, d, set_order)) :
             start_center \in CENTERS})

_calculate_overall_minimum_cost_listed(order_data, set_order) ==
    LET d == parse_order(order_data)
        m == min_overall_cost_listed(d, set_order)
    IN
    IF d.parse_error # "None" THEN Returned(0, TRUE, d.parse_error, d, FALSE)
    ELSE IF d.items_needed = {} THEN Returned(0, FALSE, "None", d, FALSE)
    ELSE IF m = Inf
    THEN Returned(0, TRUE, "No valid delivery path found", d, TRUE)
    ELSE Returned(round(m), FALSE, "None", d, TRUE)

\* --------------------------------- the copy in src/netlify/functions/app.py
\* The serverless function is a module of its own with its own tables and
\* its own copies of the helpers and of the core.
netlify_PRODUCTS ==
    [ A |-> [center |-> "C1", weight |-> 30000],
      B |-> [center |-> "C1", weight |-> 20000],
      C |-> [center |-> "C1", weight |-> 80000],
      D |-> [center |-> "C2", weight |-> 120000],
      E |-> [center |-> "C2", weight |-> 250000],
      F |-> [center |-> "C2", weight |-> 150000],
      G |-> [center |-> "C3", weight |-> 5000],
      H |-> [center |-> "C3", weight |-> 10000],
      I |-> [center |-> "C3", weight |-> 20000] ]

netlify_DISTANCES ==
    (<<"C1", "L1">> :> 6) @@ (<<"L1", "C1">> :> 6) @@
    (<<"C2", "L1">> :> 5) @@ (<<"L1", "C2">> :> 5) @@
    (<<"C3", "L1">> :> 4) @@ (<<"L1", "C3">> :> 4) @@
    (<<"C1", "C2">> :> 8) @@ (<<"C2", "C1">> :> 8) @@
    (<<"C2", "C3">> :> 6) @@ (<<"C3", "C2">> :> 6)

netlify_CENTERS == {"C1", "C2", "C3"}

netlify_get_distance(loc1, loc2) ==
    IF loc1 = loc2 THEN 0
    ELSE IF <<loc1, loc2>> \in DOMAIN netlify_DISTANCES
    THEN netlify_DISTANCES[<<loc1, loc2>>]
    ELSE IF <<loc2, loc1>> \in DOMAIN netlify_DISTANCES
    THEN netlify_DISTANCES[<<loc2, loc1>>]
    ELSE Inf

netlify_calculate_segment_cost(weight, distance) ==
    IF distance <= 0 \/ distance = Inf THEN 0
    ELSE LET additional_blocks ==
                 Ceil(Max2(0, weight - PlusEpsilon(50000)), 50000)
             cost_per_unit ==
                 IF weight <= PlusEpsilon(0) THEN 10
                 ELSE IF weight <= PlusEpsilon(50000) THEN 10
                 ELSE 10 + 8 * additional_blocks
         IN  cost_per_unit * distance

netlify_calculate_travel_cost_between_stops(loc_a, loc_b, weight_carried) ==
    LET direct_dist == netlify_get_distance(loc_a, loc_b) IN
    IF direct_dist # Inf
    THEN netlify_calculate_segment_cost(weight_carried, direct_dist)
    ELSE IF <<loc_a, loc_b>> \in {<<"C1", "C3">>, <<"C3", "C1">>}
    THEN LET dist_a_c2 == netlify_get_distance(loc_a, "C2")
             cost_a_c2 == netlify_calculate_segment_cost(weight_carried, dist_a_c2)
             dist_c2_b == netlify_get_distance("C2", loc_b)
             cost_c2_b == netlify_calculate_segment_cost(weight_carried, dist_c2_b)
         IN  IF cost_a_c2 = Inf \/ cost_c2_b = Inf THEN Inf
             ELSE cost_a_c2 + cost_c2_b
    ELSE Inf

\* The parse loop of lines 61-68, from entry i on; `acc` holds the locals.
RECURSIVE netlify_parse_loop(_, _, _)
netlify_parse_loop(order_data, i, acc) ==
    IF i > Len(order_data) THEN acc
    ELSE
      LET product_code == order_data[i].code
          quantity == order_data[i].quantity
      IN
      IF ~order_data[i].isint \/ quantity < 0
      THEN [acc EXCEPT !.parse_error = "Invalid quantity"]
      ELSE IF quantity = 0
      THEN netlify_parse_loop(order_data, i + 1, acc)
      ELSE IF product_code \notin DOMAIN netlify_PRODUCTS
      THEN [acc EXCEPT !.parse_error = "Product not found"]
      ELSE
        LET product_info == netlify_PRODUCTS[product_code]
            center == product_info.center
            item_total_weight == product_info.weight * quantity
        IN  netlify_parse_loop(order_data, i + 1,
              [acc EXCEPT
                 !.items_needed = @ \cup {product_code},
                 !.needed_centers = @ \cup {center},
                 !.weight_from_center[center] = @ + item_total_weight,
                 !.total_weight = @ + item_total_weight])

\* The inner loop over the stops of one permutation (lines 84-87 and
\* 105-108): the legs priced until the first impossible segment.
RECURSIVE netlify_pickup_legs(_, _, _, _, _, _)
netlify_pickup_legs(order, i, loc_a, weight, cost, weight_from_center) ==
    IF i > Len(order)
    THEN [valid_path |-> TRUE, cost |-> cost, loc_a |-> loc_a]
    ELSE
      LET loc_b == order[i]
          segment_cost ==
              netlify_calculate_travel_cost_between_stops(loc_a, loc_b, weight)
      IN
      IF segment_cost = Inf
      THEN [valid_path |-> FALSE, cost |-> cost, loc_a |-> loc_a]
      ELSE netlify_pickup_legs(order, i + 1, loc_b,
                               weight + weight_from_center[loc_b],
                               cost + segment_cost, weight_from_center)

\* Strategy 1 of the copy (lines 76-92)
netlify_cost_simple(start_center, d) ==
    LET pickup_centers_to_visit == d.needed_centers \ {start_center}
        current_perm_total(order) ==
            LET legs == netlify_pickup_legs(order, 1, start_center,
                            d.weight_from_center[start_center], 0,
                            d.weight_from_center)
                final_leg_cost ==
                    netlify_calculate_travel_cost_between_stops(
                        legs.loc_a, "L1", d.total_weight)
            IN  IF ~legs.valid_path \/ final_leg_cost = Inf THEN Inf
                ELSE legs.cost + final_leg_cost
    IN
    IF pickup_centers_to_visit = {}
    THEN IF start_center \in d.needed_centers \/ d.needed_centers = {}
         THEN netlify_calculate_travel_cost_between_stops(
                  start_center, "L1", d.total_weight)
         ELSE Inf
    ELSE MinOf({current_perm_total(order) :
                  order \in permutations(pickup_centers_to_visit)})

\* A plausible slip in the copy: the first delivery leg is priced at the
\* weight of the whole order.
netlify_cost_partial_full_load(start_center, d) ==
    IF d.weight_from_center[start_center] > 0 /\ Cardinality(d.needed_centers) > 1
    THEN LET w_leg1 == d.weight_from_center[start_center]
             cost_leg1 ==
                 netlify_calculate_travel_cost_between_stops(
                     start_center, "L1", d.total_weight)
             remaining_centers == d.needed_centers \ {start_center}
             weight_remaining == d.total_weight - w_leg1
             current_pickup_total(order) ==
                 LET legs == netlify_pickup_legs(order, 1, "L1", 0, 0,
                                                 d.weight_from_center)
                     final_delivery_cost ==
                         netlify_calculate_travel_cost_between_stops(
                             legs.loc_a, "L1", weight_remaining)
                 IN  IF ~legs.valid_path \/ final_delivery_cost = Inf THEN Inf
                     ELSE legs.cost + final_delivery_cost
             cost_pickup_and_final_leg ==
                 IF remaining_centers # {}
                 THEN MinOf({current_pickup_total(order) :
                               order \in permutations(remaining_centers)})
                 ELSE 0
         IN  IF cost_leg1 # Inf /\ cost_pickup_and_final_leg # Inf
             THEN cost_leg1 + cost_pickup_and_final_leg
             ELSE Inf
    ELSE Inf

\* Strategy 2 of the copy (lines 94-115)
netlify_cost_partial(start_center, d) ==
    IF d.weight_from_center[start_center] > 0 /\ Cardinality(d.needed_centers) > 1
    THEN LET w_leg1 == d.weight_from_center[start_center]
             cost_leg1 ==
                 netlify_calculate_travel_cost_between_stops(start_center, "L1", w_leg1)
             remaining_centers == d.needed_centers \ {start_center}
             weight_remaining == d.total_weight - w_leg1
             current_pickup_total(order) ==
                 LET legs == netlify_pickup_legs(order, 1, "L1", 0, 0,
                                                 d.weight_from_center)
                     final_delivery_cost ==
                         netlify_calculate_travel_cost_between_stops(
                             legs.loc_a, "L1", weight_remaining)
                 IN  IF ~legs.valid_path \/ final_delivery_cost = Inf THEN Inf
                     ELSE legs.cost + final_delivery_cost
             cost_pickup_and_final_leg ==
                 IF remaining_centers # {}
                 THEN MinOf({current_pickup_total(order) :
                               order \in permutations(remaining_centers)})
                 ELSE 0
         IN  IF cost_leg1 # Inf /\ cost_pickup_and_final_leg # Inf
             THEN cost_leg1 + cost_pickup_and_final_leg
             ELSE Inf
    ELSE Inf

\* The copy's core: the returned pair (cost, error_message), with
\* cost_is_none and error = "None" standing for Python's None.
netlify_calculate_overall_minimum_cost(order_data) ==
    LET d == netlify_parse_loop(order_data, 1,
                 [ parse_error |-> "None", items_needed |-> {},
                   needed_centers |-> {},
                   weight_from_center |-> [c \in netlify_CENTERS |-> 0],
                   total_weight |-> 0 ])
        min_overall_cost_n ==
            MinOf({Min2(netlify_cost_simple(start_center, d),
                        netlify_cost_partial(start_center, d)) :
                     start_center \in netlify_CENTERS})
    IN
    IF d.parse_error # "None"
    THEN [cost |-> 0, cost_is_none |-> TRUE, error |-> d.parse_error]
    ELSE IF d.items_needed = {}
    THEN [cost |-> 0, cost_is_none |-> FALSE, error |-> "None"]
    ELSE IF min_overall_cost_n = Inf
    THEN [cost |-> 0, cost_is_none |-> TRUE,
          error |-> "No valid delivery path found"]
    ELSE [cost |-> round(min_overall_cost_n), cost_is_none |-> FALSE,
          error |-> "None"]

\* ------------------------------------------------- 4. the JSON endpoints
\* A response: the HTTP status and the JSON body's "error" or "minimum_cost"
\* ("None" when the body has no error); core_called records whether
\* _calculate_overall_minimum_cost was invoked.
Response(status, error, minimum_cost, core_called) ==
    [ status |-> status, error |-> error, minimum_cost |-> minimum_cost,
      core_called |-> core_called ]

FromCore(r) ==
    IF r.error # "None" THEN Response(400, r.error, 0, TRUE)
    ELSE Response(200, "None", r.cost, TRUE)

\* The loop of calculate_api (src/app.py lines 278-284) from entry i on:
\* the validated order, or the error it returns with.
RECURSIVE api_validate(_, _, _)
api_validate(order_data, i, validated_order) ==
    IF i > Len(order_data) THEN [error |-> "None", validated_order |-> validated_order]
    ELSE
      LET e == order_data[i] IN
      IF ~e.isint \/ e.quantity < 0
      THEN [error |-> "Invalid quantity", validated_order |-> validated_order]
      ELSE IF e.quantity > 0
      THEN IF e.code \notin DOMAIN globals.PRODUCTS
           THEN [error |-> "Product not found", validated_order |-> validated_order]
           ELSE api_validate(order_data, i + 1, Append(validated_order, e))
      ELSE api_validate(order_data, i + 1, validated_order)

calculate_api(order_data) ==
    IF order_data = <<>> THEN Response(400, "Invalid JSON input", 0, FALSE)
    ELSE LET v == api_validate(order_data, 1, <<>>) IN
         IF v.error # "None" THEN Response(400, v.error, 0, FALSE)
         ELSE IF v.validated_order = <<>> THEN Response(200, "None", 0, FALSE)
         ELSE FromCore(_calculate_overall_minimum_cost(v.validated_order))

\* The loop of handle_calculate (src/netlify/functions/app.py lines 150-153)
RECURSIVE netlify_validate(_, _, _)
netlify_validate(order_data, i, validated_order) ==
    IF i > Len(order_data) THEN [error |-> "None", validated_order |-> validated_order]
    ELSE
      LET e == order_data[i] IN
      IF e.code \notin DOMAIN netlify_PRODUCTS
      THEN [error |-> "Product not found", validated_order |-> validated_order]
      ELSE IF ~e.isint \/ e.quantity < 0
      THEN [error |-> "Invalid quantity", validated_order |-> validated_order]
      ELSE IF e.quantity > 0
      THEN netlify_validate(order_data, i + 1, Append(validated_order, e))
      ELSE netlify_validate(order_data, i + 1, validated_order)

\* handle_calculate for a request whose body is a JSON object
handle_calculate(order_data) ==
    LET v == netlify_validate(order_data, 1, <<>>) IN
    IF v.error # "None" THEN Response(400, v.error, 0, FALSE)
    ELSE IF v.validated_order = <<>> THEN Response(200, "None", 0, FALSE)
    ELSE FromCore(netlify_calculate_overall_minimum_cost(v.validated_order))

\* ------------------------------------------------------------ the inputs
ProductCodes == <<"A", "B", "C", "D", "E", "F", "G", "H", "I">>

\* quantities of the products, at most n items in total
RECURSIVE QuantitiesUpTo(_)
QuantitiesUpTo(n) ==
    IF n = 0 THEN {[p \in DOMAIN PRODUCTS |-> 0]}
    ELSE LET S == QuantitiesUpTo(n - 1) IN
         S \cup {[q EXCEPT ![p] = @ + 1] : q \in S, p \in DOMAIN PRODUCTS}

\* the mapping with an entry for every product, in catalog order
AsMapping(q) ==
    [i \in 1..Len(ProductCodes) |-> Entry(ProductCodes[i], TRUE, q[ProductCodes[i]])]

ValidOrders == {AsMapping(q) : q \in QuantitiesUpTo(MaxItems)}

\* raw mappings: a product of each center and an unknown code, with a
\* negative, a zero, a positive and a non-integer quantity, in any order
ProbeEntries ==
    {Entry(code, TRUE, n) : code \in {"A", "D", "G", "X"}, n \in {-1, 0, 1}}
    \cup {Entry(code, FALSE, 1) : code \in {"A", "D", "G", "X"}}

RawOrders ==
    UNION {{o \in [1..n -> ProbeEntries] :
              \A i, j \in 1..n : o[i].code = o[j].code => i = j} :
           n \in 0..MaxEntries}

\* pricer inputs: the weights at and next to every tier boundary, in 0.0001 kg
BoundaryWeights ==
    {w \in {k * 50000 + dw : k \in 0..MaxBlocks, dw \in {-1, 0, 1}} : w >= 0}

PricerDistances == (0..MaxDistance) \cup {Inf}

\* resolver inputs: the documented table and every reconfiguration of it that
\* omits some of its roads (both directions of a road together)
Roads == {{p[1], p[2]} : p \in DOMAIN DISTANCES}

Reconfigured ==
    {[p \in {q \in DOMAIN DISTANCES : {q[1], q[2]} \in kept} |-> DISTANCES[p]] :
        kept \in SUBSET Roads}

CarriedWeights == {0} \cup {PRODUCTS[p].weight : p \in DOMAIN PRODUCTS}

\* ------------------------------------------------------ the state machine
VARIABLES
    call,   \* the invocation: the function and its arguments
    pc,     \* "call" before the function has run, "return" after
    ret,    \* what it returned
    earlier \* the calculations this process has completed, oldest first

vars == <<call, pc, ret, globals, earlier>>

OrderCall(fn, order_data) ==
    [fn |-> fn, order_data |-> order_data, weight |-> 0, distance |-> 0]

PricerCall(weight, distance) ==
    [fn |-> "calculate_segment_cost", order_data |-> <<>>,
     weight |-> weight, distance |-> distance]

ResolverCall(loc_a, loc_b, weight_carried) ==
    [fn |-> "_calculate_travel_cost_between_stops",
     loc_a |-> loc_a, loc_b |-> loc_b, weight_carried |-> weight_carried]

Init ==
    /\ pc = "call"
    /\ ret = "None"
    /\ earlier = <<>>
    /\ \/ /\ globals = Loaded
          /\ \/ \E o \in ValidOrders \cup RawOrders :
                  call = OrderCall("_calculate_overall_minimum_cost", o)
             \/ \E o \in RawOrders : call = OrderCall("calculate_api", o)
             \/ \E o \in RawOrders : call = OrderCall("handle_calculate", o)
             \/ \E o \in RawOrders :
                  call = OrderCall("netlify._calculate_overall_minimum_cost", o)
             \/ \E w \in BoundaryWeights, dist \in PricerDistances :
                  call = PricerCall(w, dist)
       \/ /\ \E table \in Reconfigured :
                globals = [PRODUCTS |-> PRODUCTS, DISTANCES |-> table]
          /\ \E loc_a \in LOCATIONS, loc_b \in LOCATIONS, w \in CarriedWeights :
                call = ResolverCall(loc_a, loc_b, w)

Calculate ==
    /\ pc = "call"
    /\ call.fn = "_calculate_overall_minimum_cost"
    /\ ret' = _calculate_overall_minimum_cost(call.order_data)
    /\ pc' = "return"
    /\ UNCHANGED <<call, globals, earlier>>

NetlifyCalculate ==
    /\ pc = "call"
    /\ call.fn = "netlify._calculate_overall_minimum_cost"
    /\ ret' = netlify_calculate_overall_minimum_cost(call.order_data)
    /\ pc' = "return"
    /\ UNCHANGED <<call, globals, earlier>>

CalculateApi ==
    /\ pc = "call"
    /\ call.fn = "calculate_api"
    /\ ret' = calculate_api(call.order_data)
    /\ pc' = "return"
    /\ UNCHANGED <<call, globals, earlier>>

HandleCalculate ==
    /\ pc = "call"
    /\ call.fn = "handle_calculate"
    /\ ret' = handle_calculate(call.order_data)
    /\ pc' = "return"
    /\ UNCHANGED <<call, globals, earlier>>

SegmentCost ==
    /\ pc = "call"
    /\ call.fn = "calculate_segment_cost"
    /\ ret' = calculate_segment_cost(call.weight, call.distance)
    /\ pc' = "return"
    /\ UNCHANGED <<call, globals, earlier>>

TravelCost ==
    /\ pc = "call"
    /\ call.fn = "_calculate_travel_cost_between_stops"
    /\ ret' = _calculate_travel_cost_between_stops(
                 call.loc_a, call.loc_b, call.weight_carried)
    /\ pc' = "return"
    /\ UNCHANGED <<call, globals, earlier>>

Next ==
    \/ Calculate
    \/ NetlifyCalculate
    \/ CalculateApi
    \/ HandleCalculate
    \/ SegmentCost
    \/ TravelCost

Spec == Init /\ [][Next]_vars

\* --------------------------------------- a process serving several orders
\* One process calls the core again and again.  The only sets the core
\* iterates are needed_centers - {start_center}, of at most two centers; under
\* the two orders below each of them is listed both ways round.
SetOrders == {<<"C1", "C2", "C3">>, <<"C3", "C2", "C1">>}

\* orders of no, one, two and three centers, and one that is rejected
SessionOrders ==
    {AsMapping([p \in DOMAIN PRODUCTS |-> IF p \in S THEN 1 ELSE 0]) :
        S \in {{}, {"C"}, {"C", "E"}, {"C", "E", "I"}}}
    \cup {<<Entry("X", TRUE, 1)>>}

SessionCall(order_data, set_order) ==
    [fn |-> "_calculate_overall_minimum_cost",
     order_data |-> order_data, set_order |-> set_order]

InitSession ==
    /\ pc = "call"
    /\ ret = "None"
    /\ earlier = <<>>
    /\ globals = Loaded
    /\ \E o \in SessionOrders, set_order \in SetOrders :
          call = SessionCall(o, set_order)

\* The call runs: it reads the tables and its argument, writes locals only.
CalculateInSession ==
    /\ pc = "call"
    /\ call.fn = "_calculate_overall_minimum_cost"
    /\ ret' = _calculate_overall_minimum_cost_listed(call.order_data, call.set_order)
    /\ pc' = "return"
    /\ earlier' = Append(earlier, [order_data |-> call.order_data,
                                   set_order |-> call.set_order, ret |-> ret'])
    /\ UNCHANGED <<call, globals>>

\* The next order arrives.
NextCalculation ==
    /\ pc = "return"
    /\ Len(earlier) < MaxCalls
    /\ \E o \in SessionOrders, set_order \in SetOrders :
          call' = SessionCall(o, set_order)
    /\ pc' = "call"
    /\ ret' = "None"
    /\ UNCHANGED <<globals, earlier>>

NextSession == CalculateInSession \/ NextCalculation

SpecSession == InitSession /\ [][NextSession]_vars

\* ===================================================== the specification's
\* vocabulary, stated on the order mapping itself
CoreReturned == pc = "return" /\ call.fn = "_calculate_overall_minimum_cost"

KnownProduct(e) == e.code \in DOMAIN PRODUCTS
ValidQuantity(e) == e.isint /\ e.quantity >= 0
ValidOrder(o) == \A i \in 1..Len(o) : KnownProduct(o[i]) /\ ValidQuantity(o[i])
HasPositive(o) == \E i \in 1..Len(o) : o[i].quantity > 0
ValidationErrors == {"Invalid quantity", "Product not found"}

RECURSIVE SumOver(_, _)
SumOver(f, n) == IF n = 0 THEN 0 ELSE SumOver(f, n - 1) + f[n]

\* the weight a valid order asks for at a location (none at the hub)
DemandAt(o, loc) ==
    SumOver([i \in 1..Len(o) |->
               IF PRODUCTS[o[i].code].center = loc
               THEN PRODUCTS[o[i].code].weight * o[i].quantity ELSE 0], Len(o))

Total(o) == DemandAt(o, "C1") + DemandAt(o, "C2") + DemandAt(o, "C3")
Needed(o) == {c \in CENTERS : DemandAt(o, c) > 0}

\* the tariff: 10 up to 5 kg, then 8 more for every started 5 kg
TierRate(w) ==
    IF w <= 50000 THEN 10
    ELSE 10 + 8 * (CHOOSE k \in 1..(w \div 50000 + 1) :
                      50000 * (k - 1) < w - 50000 /\ w - 50000 <= 50000 * k)

\* the road between two locations, in half units: C1 - C3 runs through C2
RoadLength(a, b) ==
    IF a = b THEN 0
    ELSE IF {a, b} = {"C1", "L1"} THEN 6
    ELSE IF {a, b} = {"C2", "L1"} THEN 5
    ELSE IF {a, b} = {"C3", "L1"} THEN 4
    ELSE IF {a, b} = {"C1", "C2"} THEN 8
    ELSE IF {a, b} = {"C2", "C3"} THEN 6
    ELSE 8 + 6

\* every visiting order of a set of centers
Orderings(S) ==
    {p \in UNION {[1..n -> S] : n \in 0..Cardinality(CENTERS)} :
        Len(p) = Cardinality(S) /\ {p[i] : i \in 1..Len(p)} = S}

\* one trip along `stops`: each leg is priced at what has been picked up at
\* the stops so far, the last leg (into the hub) at final_load
TripCost(stops, o, final_load) ==
    SumOver([i \in 1..(Len(stops) - 1) |->
               TierRate(IF i = Len(stops) - 1 THEN final_load
                        ELSE SumOver([j \in 1..i |-> DemandAt(o, stops[j])], i))
               * RoadLength(stops[i], stops[i + 1])],
            Len(stops) - 1)

StrategyA(o, s) ==
    {TripCost(<<s>> \o p \o <<"L1">>, o, Total(o)) :
        p \in Orderings(Needed(o) \ {s})}

StrategyB(o, s) ==
    IF DemandAt(o, s) > 0 /\ Needed(o) \ {s} # {}
    THEN {TierRate(DemandAt(o, s)) * RoadLength(s, "L1")
          + TripCost(<<"L1">> \o p \o <<"L1">>, o, Total(o) - DemandAt(o, s)) :
            p \in Orderings(Needed(o) \ {s})}
    ELSE {}

Candidates(o) == UNION {StrategyA(o, s) \cup StrategyB(o, s) : s \in CENTERS}

\* n is raw cost c2 (in half units) rounded to the nearest integer, ties to even
IsRounded(n, c2) ==
    /\ 2 * n - c2 \in {-1, 0, 1}
    /\ 2 * n # c2 => n % 2 = 0

\* ================================================================ claims

\* C1: for every valid order with a positive quantity the core returns the
\* rounded minimum, over the three start centers, of Strategy A and Strategy B
\* as the specification describes them, and no such route is cheaper.
C1_GlobalMinimum ==
    (CoreReturned /\ ValidOrder(call.order_data) /\ HasPositive(call.order_data))
    => /\ ret.error = "None" /\ ~ret.cost_is_none
       /\ \E c \in Candidates(call.order_data) :
            /\ IsRounded(ret.cost, c)
            /\ \A c2 \in Candidates(call.order_data) : c <= c2
       /\ \A c \in Candidates(call.order_data) : 2 * ret.cost <= c

\* C1 witness: all three centers are needed and the minimum is a Strategy B
\* route, cheaper than every Strategy A route.
C1_Witness ==
    /\ CoreReturned /\ ValidOrder(call.order_data)
    /\ Needed(call.order_data) = CENTERS
    /\ ret.searched /\ ~ret.cost_is_none
    /\ \A s \in CENTERS : \A c \in StrategyA(call.order_data, s) : 2 * ret.cost < c

\* C2 (as claimed): a mapping with a code that is not in the catalog makes the
\* core return a validation error, whatever the quantity given for that code.
C2_UnknownCodeRejected ==
    (CoreReturned /\ \E i \in 1..Len(call.order_data) :
                        ~KnownProduct(call.order_data[i]))
    => ret.error \in ValidationErrors /\ ret.cost_is_none

\* the first entry the specification calls offending: a quantity that is not
\* a non-negative integer, or an unknown product code
Offending(e) == ~ValidQuantity(e) \/ ~KnownProduct(e)
FirstOffending(o) ==
    CHOOSE i \in 1..Len(o) : Offending(o[i]) /\ \A j \in 1..(i - 1) : ~Offending(o[j])

\* C3 (as claimed): a mapping with a negative or non-integer quantity makes
\* the core return a validation error and no cost; the error is the one of the
\* first offending entry, nothing after that entry is read and no search runs.
C3_FirstOffendingReported ==
    (CoreReturned /\ \E i \in 1..Len(call.order_data) :
                        ~ValidQuantity(call.order_data[i]))
    => /\ ret.error \in ValidationErrors /\ ret.cost_is_none
       /\ ret.error_code = call.order_data[FirstOffending(call.order_data)].code
       /\ ret.entries_read = FirstOffending(call.order_data)
       /\ ~ret.searched

\* C4: a mapping whose entries are all known products with quantity 0 (the
\* empty mapping included) returns cost 0 and no error, before any search.
C4_EmptyOrderIsFree ==
    (CoreReturned /\ \A i \in 1..Len(call.order_data) :
                        /\ KnownProduct(call.order_data[i])
                        /\ call.order_data[i].isint
                        /\ call.order_data[i].quantity = 0)
    => /\ ret.cost = 0 /\ ~ret.cost_is_none /\ ret.error = "None"
       /\ ~ret.searched /\ ret.entries_read = Len(call.order_data)

\* C4 witness: zero of every product has been ordered and priced.
C4_Witness ==
    /\ CoreReturned
    /\ Len(call.order_data) = Len(ProductCodes)
    /\ \A i \in 1..Len(call.order_data) :
          call.order_data[i].isint /\ call.order_data[i].quantity = 0
    /\ ret.cost = 0 /\ ~ret.searched

\* the order with one more of product p
OneMore(o, p) ==
    IF \E i \in 1..Len(o) : o[i].code = p
    THEN [i \in 1..Len(o) |->
            IF o[i].code = p THEN [o[i] EXCEPT !.quantity = @ + 1] ELSE o[i]]
    ELSE Append(o, Entry(p, TRUE, 1))

\* C5: one more of any product never lowers the cost of a valid order.
C5_Monotone ==
    (CoreReturned /\ ValidOrder(call.order_data))
    => \A p \in DOMAIN PRODUCTS :
         LET more == _calculate_overall_minimum_cost(OneMore(call.order_data, p))
         IN  /\ ret.error = "None" /\ more.error = "None"
             /\ more.cost >= ret.cost

\* C5 witness: an order with demand, and a product of a center without demand
\* whose addition raises the cost.
C5_Witness ==
    /\ CoreReturned /\ ValidOrder(call.order_data) /\ HasPositive(call.order_data)
    /\ \E p \in DOMAIN PRODUCTS :
         /\ PRODUCTS[p].center \notin Needed(call.order_data)
         /\ _calculate_overall_minimum_cost(OneMore(call.order_data, p)).cost > ret.cost

\* C6 (as claimed): of two valid orders of the same total weight, one with
\* demand at exactly two centers joined by a direct edge and one with demand at
\* exactly C1 and C3, the direct-edge order costs no more.
C6_DirectEdgeNeverDearer ==
    (CoreReturned /\ ValidOrder(call.order_data)
       /\ Needed(call.order_data) \in {{"C1", "C2"}, {"C2", "C3"}})
    => \A o2 \in ValidOrders :
         (Needed(o2) = {"C1", "C3"} /\ Total(o2) = Total(call.order_data))
         => ret.cost <= _calculate_overall_minimum_cost(o2).cost

\* the C1/C3 orders that move the C2 demand of order o to C1 and keep its C3
\* demand
MovedToC1(o) ==
    {o2 \in ValidOrders :
        /\ Needed(o2) = {"C1", "C3"}
        /\ DemandAt(o2, "C1") = DemandAt(o, "C2")
        /\ DemandAt(o2, "C3") = DemandAt(o, "C3")}

\* C6 (amended): an order with demand at exactly C2 and C3 costs no more than
\* any order with demand at exactly C1 and C3 that has the same weight at C3
\* and, at C1, the weight the first order has at C2.
C6_SameWeightsDirectEdge ==
    (CoreReturned /\ ValidOrder(call.order_data)
       /\ Needed(call.order_data) = {"C2", "C3"})
    => \A o2 \in MovedToC1(call.order_data) :
         ret.cost <= _calculate_overall_minimum_cost(o2).cost

\* C6 witness: a C2/C3 order that is priced, and a C1/C3 order of the same
\* weights that costs strictly more.
C6_Witness ==
    /\ CoreReturned /\ ValidOrder(call.order_data)
    /\ Needed(call.order_data) = {"C2", "C3"}
    /\ \E o2 \in MovedToC1(call.order_data) :
         ret.cost < _calculate_overall_minimum_cost(o2).cost

\* C7: when all ordered products are homed at one center c, the cost is the
\* c - L1 distance times the tiered rate of the total weight; Strategy B is
\* attempted for no start center, and no other start center does better than
\* the direct leg.
C7_SingleCenter ==
    (CoreReturned /\ ValidOrder(call.order_data)
       /\ Cardinality(Needed(call.order_data)) = 1)
    => LET o == call.order_data
           c == CHOOSE x \in CENTERS : Needed(o) = {x}
           direct == RoadLength(c, "L1") * TierRate(Total(o))
       IN  /\ ret.error = "None" /\ ~ret.cost_is_none
           /\ 2 * ret.cost = direct
           /\ ret.partial_starts = {}
           /\ \A s \in CENTERS :
                 /\ ~partial_applies(s, parse_order(o))
                 /\ cost_partial(s, parse_order(o)) = Inf
                 /\ cost_simple(s, parse_order(o)) >= direct
           /\ cost_simple(c, parse_order(o)) = direct

\* C7 witness: a priced order for C1 only, heavy enough to pay a surcharge.
C7_Witness ==
    /\ CoreReturned /\ ValidOrder(call.order_data)
    /\ Needed(call.order_data) = {"C1"}
    /\ Total(call.order_data) > 50000
    /\ 2 * ret.cost = 6 * TierRate(Total(call.order_data))

\* C8: every valid order yields a cost, never an error, and the cost is a
\* non-negative integer.
C8_CostIsNatural ==
    (CoreReturned /\ ValidOrder(call.order_data))
    => /\ ret.error = "None" /\ ~ret.cost_is_none
       /\ ret.cost \in Nat
       /\ (ret.searched => min_overall_cost(parse_order(call.order_data)) # Inf)

\* C8 witness: a priced order that needs all three centers.
C8_Witness ==
    /\ CoreReturned /\ ValidOrder(call.order_data)
    /\ Needed(call.order_data) = CENTERS
    /\ ret.searched /\ ret.error = "None" /\ ret.cost > 0

PricerReturned == pc = "return" /\ call.fn = "calculate_segment_cost"

\* C9: the rate is 10 up to and including 5 kg and 10 + 8 * ceil((w - 5) / 5)
\* above; exactly 5.0 prices at 10, 5.0001 at 18, exactly 10.0 at 18 and
\* 10.0001 at 26; a leg of positive finite distance costs rate * distance.
C9_TierBoundaries ==
    (PricerReturned /\ call.distance > 0 /\ call.distance # Inf)
    => /\ ret = TierRate(call.weight) * call.distance
       /\ call.weight <= 50000 => ret = 10 * call.distance
       /\ call.weight = 50001 => ret = 18 * call.distance
       /\ call.weight = 100000 => ret = 18 * call.distance
       /\ call.weight = 100001 => ret = 26 * call.distance

\* C9 witness: a leg carrying 10.0001 kg over a positive distance is priced.
C9_Witness ==
    /\ PricerReturned
    /\ call.weight = 100001 /\ call.distance = 5
    /\ ret = 26 * 5

\* C10 (as claimed): both JSON endpoints answer the empty mapping with a
\* success response of minimum cost 0, without invoking the core.
C10_EmptyMappingAccepted ==
    (pc = "return" /\ call.fn \in {"calculate_api", "handle_calculate"}
       /\ call.order_data = <<>>)
    => /\ ret.status = 200 /\ ret.error = "None"
       /\ ret.minimum_cost = 0 /\ ~ret.core_called

ResolverReturned ==
    pc = "return" /\ call.fn = "_calculate_travel_cost_between_stops"

\* the table in use has no direct edge between a and b, in either orientation
NoEdge(a, b) ==
    /\ <<a, b>> \notin DOMAIN globals.DISTANCES
    /\ <<b, a>> \notin DOMAIN globals.DISTANCES

\* C12 (as claimed): for the detour pair C1, C3 in either direction, whenever
\* the leg to C2 or the leg from C2 has no direct edge in the distance table,
\* the resolver returns Unreachable and never a finite cost.
C12_DetourPropagatesUnreachable ==
    (ResolverReturned
       /\ {call.loc_a, call.loc_b} = {"C1", "C3"}
       /\ NoEdge("C1", "C3")
       /\ (NoEdge(call.loc_a, "C2") \/ NoEdge("C2", call.loc_b)))
    => ret = Inf

NetlifyReturned ==
    pc = "return" /\ call.fn = "netlify._calculate_overall_minimum_cost"

\* what a caller of the core observes: the kind of outcome and, for a cost,
\* its value
Outcome(r) ==
    IF r.error = "None" THEN [kind |-> "cost", cost |-> r.cost]
    ELSE IF r.error = "No valid delivery path found"
    THEN [kind |-> "infeasible", cost |-> 0]
    ELSE [kind |-> "validation", cost |-> 0]

\* C13: the two copies of _calculate_overall_minimum_cost are equivalent: on
\* every order mapping, what either copy returns has the same outcome kind
\* (cost, validation error, infeasible) as the other copy's result on that
\* mapping and, for a cost, the same value.
C13_CopiesEquivalent ==
    /\ CoreReturned =>
         Outcome(ret) =
             Outcome(netlify_calculate_overall_minimum_cost(call.order_data))
    /\ NetlifyReturned =>
         Outcome(ret) = Outcome(_calculate_overall_minimum_cost(call.order_data))

\* the copy has priced an order that takes a product from each of the three
\* centers, at the cost the original returns for it
C13_Witness ==
    /\ NetlifyReturned
    /\ Outcome(ret).kind = "cost"
    /\ \A i \in 1..Len(call.order_data) :
          /\ call.order_data[i].quantity > 0
          /\ call.order_data[i].code \in DOMAIN netlify_PRODUCTS
    /\ {netlify_PRODUCTS[call.order_data[i].code].center :
           i \in 1..Len(call.order_data)} = netlify_CENTERS
    /\ ret.cost = _calculate_overall_minimum_cost(call.order_data).cost

\* C11: across any sequence of calculations the product catalog and the
\* distance table stay as loaded, and any two calculations of the same order
\* mapping returned the same result, whatever was calculated in between and
\* in whatever order the sets of centers iterated.
C11_Idempotent ==
    /\ globals = Loaded
    /\ \A i, j \in 1..Len(earlier) :
          earlier[i].order_data = earlier[j].order_data
              => earlier[i].ret = earlier[j].ret

\* an order of all three centers was priced twice, with the sets iterating
\* differently and another order calculated in between
C11_Witness ==
    /\ Len(earlier) >= 3
    /\ earlier[1].order_data = earlier[3].order_data
    /\ earlier[2].order_data # earlier[1].order_data
    /\ earlier[1].set_order # earlier[3].set_order
    /\ earlier[1].ret.partial_starts = CENTERS
    /\ earlier[3].ret.error = "None" /\ earlier[3].ret.cost > 0

====
